---- MODULE Spec2Model ----
(***************************************************************************)
(* Model of bid-agent: the workflow of agents/bid_coordinator.py, its      *)
(* skills, utils/docx_utils.py and llm_providers/factory.py. The insertion *)
(* step:                                                                   *)
(*   skills/image_inserter.py  ImageInserterSkill (validate_input, execute)*)
(*   skills/base_skill.py      BaseSkill.run / handle_error                *)
(*   utils/docx_utils.py       insert_images_batch,                        *)
(*                             insert_image_at_paragraph                   *)
(*                                                                         *)
(* A document is the sequence of its body paragraphs (doc.paragraphs).     *)
(* A paragraph is a record                                                 *)
(*   elem      identity of the underlying XML element: the 0-based index   *)
(*             the paragraph had in the target file, NewElem for a         *)
(*             paragraph created during the batch                          *)
(*   text      a token for the paragraph text, EmptyText for ""            *)
(*   style     the style name                                              *)
(*   images    the pictures held by the runs of the paragraph, in order    *)
(*   alignment the paragraph alignment, "None" when not set                *)
(* An image file is identified by the index it got at extraction           *)
(* (temp/image_<k>.<ext>); image_files is the set of those that exist.     *)
(***************************************************************************)
EXTENDS Integers, Sequences, FiniteSets, TLC

VARIABLES
    target_exists,   \* Path(state["target_path"]).exists()
    target_doc,      \* paragraphs of the file at target_path
    num_images,      \* len(state["extracted_images"])
    image_files,     \* extracted image paths that exist on disk
    insertion_plan,  \* state["insertion_plan"]
    batch_plan,      \* execute: batch_plan / insert_images_batch: insertion_plan
    sorted_plan,     \* insert_images_batch: sorted_plan
    item,            \* insert_images_batch: position of the loop in sorted_plan
    doc,             \* insert_images_batch: the in-memory document
    calls,           \* the calls of insert_image_at_paragraph made so far
    output_written,  \* a file exists at output_path
    output_file,     \* paragraphs of the file at output_path
    error,           \* state["error"]
    current_step,    \* state["current_step"]
    completed,       \* state["completed"]
    alignment,       \* insert_images_batch: alignment
    exception,       \* the exception in flight, "None" when there is none
    pc,              \* position of the insertion step
    node,            \* position of the workflow, or of a call made on its own
    source_exists,   \* Path(state["source_path"]).exists()
    rels,            \* doc.part.rels of the source document, in table order
    rel_item,        \* extract_images_from_docx: position of the loop in rels
    images,          \* extract_images_from_docx: images
    temp_dir,        \* names of the files written to output_dir
    adoc,            \* paragraphs of the document analyze_document_structure loads
    structure,       \* the DocumentStructure returned / state["target_structure"]
    response,        \* what the oracle answers when invoked
    oracle_calls,    \* number of calls of llm.invoke made
    target_path,     \* state["target_path"] / insert_images_batch: doc_path
    output_path,     \* execute: output_path / insert_images_batch: output_path
    text,            \* parse_llm_response: response, of the call in progress
    depth,           \* parse_llm_response: calls of itself made so far
    config,          \* config.LLM_PROVIDER, GLM_API_KEY, GEMINI_API_KEY
    provider_name,   \* create_provider: provider_name
    provider         \* the provider create_provider returned

vars == <<target_exists, target_doc, num_images, image_files, insertion_plan,
          batch_plan, sorted_plan, item, doc, calls, output_written,
          output_file, error, current_step, completed, alignment, exception, pc,
          node, source_exists, rels, rel_item, images, temp_dir, adoc, structure,
          response, oracle_calls, target_path, output_path, text, depth,
          config, provider_name, provider>>

\* The variables the insertion step neither reads nor writes.
otherVars == <<node, source_exists, rels, rel_item, images, temp_dir, adoc,
               structure, response, oracle_calls, target_path, text, depth,
               config, provider_name, provider>>

\* ------------------------------------------------------------------ bounds
MaxParas == 2
MaxImages == 2
MaxPlan == 2
MaxRels == 3
MaxShiftPlan == 3
MaxText == 5

\* --------------------------------------------------------------- constants
NewElem == -1
EmptyText == 0
IMAGE_ALIGNMENT == "center"

\* ------------------------------------------------------------- documents
\* Text token of the i-th (0-based) paragraph of a target document.
TextOf(i) == i + 1

\* Style of the i-th paragraph of a target document.
StyleOf(i) == IF i % 2 = 0 THEN "Heading 1" ELSE "Normal"

\* A target document with n body paragraphs, as Document(doc_path) loads it.
TargetDoc(n) ==
    [i \in 1..n |-> [elem |-> i - 1, text |-> TextOf(i - 1),
                     style |-> StyleOf(i - 1), images |-> <<>>,
                     alignment |-> "None"]]

\* A freshly created paragraph: no text, default style, no run.
EmptyPara ==
    [elem |-> NewElem, text |-> EmptyText, style |-> "Normal",
     images |-> <<>>, alignment |-> "None"]

\* s with x placed so that it becomes element number k (1-based).
InsertAt(s, k, x) == SubSeq(s, 1, k - 1) \o <<x>> \o SubSeq(s, k, Len(s))

\* s without its element number k.
RemoveAt(s, k) == SubSeq(s, 1, k - 1) \o SubSeq(s, k + 1, Len(s))

\* ------------------------------------------------ insert_image_at_paragraph
\* Python's list[i] for a list of length n: the 1-based position read, given
\* that -n <= i < n (a negative index counts from the end).
PyIndex(i, n) == IF i >= 0 THEN i + 1 ELSE n + i + 1

\* Python's list[i] raises IndexError.
PyIndexError(i, n) == i >= n \/ i < -n

\* para.insert_paragraph_before(""): an empty paragraph enters d right before
\* the paragraph at position pos.
InsertParagraphBefore(d, pos) == InsertAt(d, pos, EmptyPara)

\* doc.add_paragraph(): an empty paragraph is appended to the body.
AddParagraph(d) == Append(d, EmptyPara)

\* Mutant of AddNext: the moved element replaces the paragraph after the
\* anchor instead of entering before it.
AddNextReplacing(d, pos, src) ==
    IF pos + 1 < src
    THEN [RemoveAt(d, src) EXCEPT ![pos + 1] = d[src]]
    ELSE d

\* para._element.addnext(e) for the element e at position src: e is moved to
\* directly after the paragraph at position pos (pos < src).
AddNext(d, pos, src) == InsertAt(RemoveAt(d, src), pos + 1, d[src])

\* What addnext returns and para_for_image is bound to: lxml's addnext
\* returns None, so no paragraph of the document compares equal to it.
ParaForImage(pos) == 0

\* The loop "for p in doc.paragraphs: if p._element == para_for_image":
\* para is rebound to the paragraph found, and stays the anchor otherwise.
LocatePara(d, para_for_image, para) ==
    IF para_for_image \in 1..Len(d) THEN para_for_image ELSE para

\* alignment_map.get(alignment.lower(), WD_ALIGN_PARAGRAPH.CENTER)
AlignmentMap(a) ==
    CASE a \in {"left", "LEFT"} -> "left"
      [] a \in {"center", "CENTER"} -> "center"
      [] a \in {"right", "RIGHT"} -> "right"
      [] OTHER -> "center"

\* para.add_run(); run.add_picture(image_path); para.alignment = ...
AddPicture(d, para, image_path, a) ==
    [d EXCEPT ![para].images = Append(@, image_path),
              ![para].alignment = AlignmentMap(a)]

\* Mutant of InRange: the bound of the branch is off by one.
InRangeInclusive(d, para_index) == para_index <= Len(d)

\* The branch "para_index < len(doc.paragraphs)" of insert_image_at_paragraph.
InRange(d, para_index) == para_index < Len(d)

\* The document and the paragraph that receives the picture, before the
\* picture is added (lines 191-208).
PlaceParagraph(d, para_index) ==
    IF InRange(d, para_index)
    THEN LET pos == PyIndex(para_index, Len(d))
             d1 == InsertParagraphBefore(d, pos)
             d2 == AddParagraph(d1)
             d3 == AddNext(d2, pos + 1, Len(d2))
         IN [doc |-> d3, para |-> LocatePara(d3, ParaForImage(pos + 2), pos + 1)]
    ELSE [doc |-> AddParagraph(d), para |-> Len(d) + 1]

\* insert_image_at_paragraph(doc, para_index, image_path, alignment): the
\* exception raised ("None" when it returns), the document afterwards and the
\* position of the paragraph the picture went to.
InsertImageAtParagraph(d, para_index, image_path, a, files) ==
    IF InRange(d, para_index) /\ PyIndexError(para_index, Len(d))
    THEN [raised |-> "IndexError", doc |-> d, para |-> 0]
    ELSE LET placed == PlaceParagraph(d, para_index)
         IN IF image_path \notin files
            THEN [raised |-> "FileNotFoundError", doc |-> placed.doc, para |-> 0]
            ELSE [raised |-> "None",
                  doc |-> AddPicture(placed.doc, placed.para, image_path, a),
                  para |-> placed.para]

\* ------------------------------------------------------ insert_images_batch
\* Mutant of SortedPlan: the plan is applied from its last entry to its first.
SortedPlanReversed(plan) == [k \in 1..Len(plan) |-> plan[Len(plan) + 1 - k]]

\* Mutant of SortedPlan: the plan is applied in the order given.
SortedPlanAsGiven(plan) == plan

\* sorted(insertion_plan, key=insert_after_para, reverse=True): descending,
\* and stable (entries with equal keys keep their input order).
RECURSIVE SortedPlan(_)
SortedPlan(plan) ==
    IF plan = <<>> THEN <<>>
    ELSE LET rest == SortedPlan(SubSeq(plan, 1, Len(plan) - 1))
             x == plan[Len(plan)]
             k == Cardinality({i \in 1..Len(rest) :
                     rest[i].insert_after_para >= x.insert_after_para})
         IN InsertAt(rest, k + 1, x)

\* The loop of insert_images_batch over sorted_plan, from document d: the
\* exception that ends it ("None" when every item was applied) and the
\* in-memory document.
RECURSIVE ApplyPlan(_, _, _, _)
ApplyPlan(d, plan, a, files) ==
    IF plan = <<>> THEN [raised |-> "None", doc |-> d]
    ELSE LET r == InsertImageAtParagraph(d, Head(plan).insert_after_para,
                                         Head(plan).image_path, a, files)
         IN IF r.raised # "None" THEN [raised |-> r.raised, doc |-> r.doc]
            ELSE ApplyPlan(r.doc, Tail(plan), a, files)

\* insert_images_batch(doc_path, output_path, insertion_plan, alignment) as a
\* whole: the exception it raises, whether output_path was written, and what
\* was written.
InsertImagesBatch(target, plan, a, files) ==
    LET r == ApplyPlan(target, SortedPlan(plan), a, files)
    IN [raised |-> r.raised,
        written |-> (r.raised = "None"),
        output |-> IF r.raised = "None" THEN r.doc ELSE <<>>]

\* ------------------------------------------------------ ImageInserterSkill
\* The image file extract_images_from_docx wrote for image k: its temp_path
\* is identified with k.
TempPath(k) == k

\* extracted_images[image_index]["temp_path"] (Python indexing).
ImagePath(image_index, n) == TempPath(PyIndex(image_index, n) - 1)

\* Mutant of SkipOutOfRange: the bound of the test is off by one.
SkipOutOfRangeStrict(image_index, n) == image_index > n

\* Mutant of ImageExists: the file is not looked for.
ImageExistsUnchecked(image_path, files) == TRUE

\* "if image_index >= len(extracted_images)": the decision is skipped.
SkipOutOfRange(image_index, n) == image_index >= n

\* "if not image_path.exists()" is false: the file is there.
ImageExists(image_path, files) == image_path \in files

\* The loop of execute that builds batch_plan from state["insertion_plan"]:
\* the exception raised ("None" when the loop ends) and the plan built.
RECURSIVE BuildBatchPlan(_, _, _, _)
BuildBatchPlan(plan, n, files, acc) ==
    IF plan = <<>> THEN [raised |-> "None", batch_plan |-> acc]
    ELSE LET decision == Head(plan)
             image_index == decision.image_index
         IN IF SkipOutOfRange(image_index, n)
            THEN BuildBatchPlan(Tail(plan), n, files, acc)
            ELSE IF PyIndexError(image_index, n)
            THEN [raised |-> "IndexError", batch_plan |-> acc]
            ELSE IF ~ImageExists(ImagePath(image_index, n), files)
            THEN BuildBatchPlan(Tail(plan), n, files, acc)
            ELSE BuildBatchPlan(Tail(plan), n, files,
                    Append(acc, [image_path |-> ImagePath(image_index, n),
                                 insert_after_para |-> decision.insert_after_para]))

\* execute as a whole on the plan given: what insert_images_batch did, or the
\* exception raised before it was called.
Execute(plan, target, n, files) ==
    LET built == BuildBatchPlan(plan, n, files, <<>>)
    IN IF built.raised # "None"
       THEN [raised |-> built.raised, written |-> FALSE, output |-> <<>>]
       ELSE InsertImagesBatch(target, built.batch_plan, IMAGE_ALIGNMENT, files)

\* A path is a directory, the stem of the file name as the sequence of its
\* pieces, and the suffix. config.OUTPUT_DOC_DIR:
OUTPUT_DOC_DIR == "output"

\* Mutant of OutputPath: the file keeps its name in the output directory.
OutputPathSameName(tp) ==
    [dir |-> OUTPUT_DOC_DIR, stem |-> tp.stem, suffix |-> tp.suffix]

\* output_dir / f"{target_path.stem}_result{target_path.suffix}"
OutputPath(tp) ==
    [dir |-> OUTPUT_DOC_DIR, stem |-> Append(tp.stem, "_result"),
     suffix |-> tp.suffix]

\* config.TARGET_DOC_PATH, the target of a default run.
TARGET_DOC_PATH == [dir |-> "to", stem |-> <<"0000000">>, suffix |-> ".docx"]

\* No path yet (state["output_path"] = None).
NoPath == [dir |-> "None", stem |-> <<>>, suffix |-> ""]

\* Mutant of ValidateInput: the inserter runs on whatever state it is given.
ValidateInputUnchecked == TRUE

\* ImageInserterSkill.validate_input (the state always holds the three keys:
\* create_initial_state sets them).
ValidateInput == insertion_plan # <<>> /\ target_exists

\* f"{self.name} failed", with the name the skill of the node was built with.
SkillFailed(n) ==
    CASE n = "extract_images" -> "DocxExtractor failed"
      [] n = "analyze_target" -> "DocxAnalyzer failed"
      [] n = "llm_decision" -> "LLMAdvisor failed"
      [] n = "insert_images" -> "ImageInserter failed"

\* BaseSkill.handle_error: error_msg = f"{self.name} failed: {str(error)}".
ErrorMsg(e) == <<SkillFailed(node), e>>

NoError == <<"None", "None">>

\* --------------------------------------------------------------- actions
\* BaseSkill.run: validate_input fails, handle_error(ValueError) is returned.
RunInvalidInput ==
    /\ node = "insert_images"
    /\ pc = "run"
    /\ ~ValidateInput
    /\ error' = ErrorMsg("Invalid input state for ImageInserter")
    /\ current_step' = "error"
    /\ pc' = "done"
    /\ UNCHANGED <<target_exists, target_doc, num_images, image_files,
                   insertion_plan, batch_plan, sorted_plan, item, doc, calls,
                   output_written, output_file, completed, alignment, exception>>
    /\ UNCHANGED otherVars
    /\ UNCHANGED output_path

\* execute, lines 46-94: batch_plan is built and insert_images_batch is called
\* with config.IMAGE_ALIGNMENT.
ExecuteBuildPlan ==
    /\ node = "insert_images"
    /\ pc = "run"
    /\ ValidateInput
    /\ LET built == BuildBatchPlan(insertion_plan, num_images, image_files, <<>>)
       IN /\ built.raised = "None"
          /\ batch_plan' = built.batch_plan
    /\ alignment' = IMAGE_ALIGNMENT
    /\ output_path' = OutputPath(target_path)
    /\ pc' = "insert_images_batch"
    /\ UNCHANGED <<target_exists, target_doc, num_images, image_files,
                   insertion_plan, sorted_plan, item, doc, calls,
                   output_written, output_file, error, current_step, completed,
                   exception>>
    /\ UNCHANGED otherVars

\* execute: extracted_images[image_index] raises while batch_plan is built.
ExecuteBuildRaises ==
    /\ node = "insert_images"
    /\ pc = "run"
    /\ ValidateInput
    /\ LET built == BuildBatchPlan(insertion_plan, num_images, image_files, <<>>)
       IN /\ built.raised # "None"
          /\ exception' = built.raised
    /\ pc' = "raised"
    /\ UNCHANGED <<target_exists, target_doc, num_images, image_files,
                   insertion_plan, batch_plan, sorted_plan, item, doc, calls,
                   output_written, output_file, error, current_step, completed,
                   alignment>>
    /\ UNCHANGED otherVars
    /\ UNCHANGED output_path

\* insert_images_batch, lines 241-246: the document is loaded and the plan
\* sorted.
BatchOpen ==
    /\ pc = "insert_images_batch"
    /\ doc' = target_doc
    /\ sorted_plan' = SortedPlan(batch_plan)
    /\ item' = 1
    /\ pc' = "loop"
    /\ UNCHANGED <<target_exists, target_doc, num_images, image_files,
                   insertion_plan, batch_plan, calls, output_written,
                   output_file, error, current_step, completed, alignment,
                   exception>>
    /\ UNCHANGED otherVars
    /\ UNCHANGED output_path

\* The call of insert_image_at_paragraph for the current plan_item.
CurrentCall ==
    InsertImageAtParagraph(doc, sorted_plan[item].insert_after_para,
                           sorted_plan[item].image_path, alignment, image_files)

\* insert_images_batch, lines 248-258: one iteration of the loop over
\* sorted_plan; insert_image_at_paragraph returns.
BatchApply ==
    /\ pc = "loop"
    /\ item <= Len(sorted_plan)
    /\ CurrentCall.raised = "None"
    /\ doc' = CurrentCall.doc
    /\ calls' = Append(calls, [para_index |-> sorted_plan[item].insert_after_para,
                               image_path |-> sorted_plan[item].image_path,
                               len_paragraphs |-> Len(doc),
                               para |-> CurrentCall.para])
    /\ item' = item + 1
    /\ UNCHANGED <<target_exists, target_doc, num_images, image_files,
                   insertion_plan, batch_plan, sorted_plan, output_written,
                   output_file, error, current_step, completed, alignment,
                   exception, pc>>
    /\ UNCHANGED otherVars
    /\ UNCHANGED output_path

\* Mutant of BatchApplyRaises: the document is saved on the way out (a save
\* placed in a finally block).
BatchApplyRaisesSaving ==
    /\ pc = "loop"
    /\ item <= Len(sorted_plan)
    /\ CurrentCall.raised # "None"
    /\ doc' = CurrentCall.doc
    /\ exception' = CurrentCall.raised
    /\ output_written' = TRUE
    /\ output_file' = CurrentCall.doc
    /\ pc' = "raised"
    /\ UNCHANGED <<target_exists, target_doc, num_images, image_files,
                   insertion_plan, batch_plan, sorted_plan, item, calls,
                   error, current_step, completed, alignment>>
    /\ UNCHANGED otherVars
    /\ UNCHANGED output_path

\* One iteration of the loop in which insert_image_at_paragraph raises: the
\* exception leaves insert_images_batch before doc.save.
BatchApplyRaises ==
    /\ pc = "loop"
    /\ item <= Len(sorted_plan)
    /\ CurrentCall.raised # "None"
    /\ doc' = CurrentCall.doc
    /\ exception' = CurrentCall.raised
    /\ pc' = "raised"
    /\ UNCHANGED <<target_exists, target_doc, num_images, image_files,
                   insertion_plan, batch_plan, sorted_plan, item, calls,
                   output_written, output_file, error, current_step, completed,
                   alignment>>
    /\ UNCHANGED otherVars
    /\ UNCHANGED output_path

\* insert_images_batch, lines 260-262: doc.save(output_path) after the loop.
\* The file at output_path is the target file when the two paths are one.
BatchSave ==
    /\ pc = "loop"
    /\ item > Len(sorted_plan)
    /\ output_written' = TRUE
    /\ output_file' = doc
    /\ target_doc' = (IF output_path = target_path THEN doc ELSE target_doc)
    /\ pc' = "returned"
    /\ UNCHANGED <<target_exists, num_images, image_files,
                   insertion_plan, batch_plan, sorted_plan, item, doc, calls,
                   error, current_step, completed, alignment, exception>>
    /\ UNCHANGED otherVars
    /\ UNCHANGED output_path

\* execute, lines 96-105: the state is updated after insert_images_batch
\* returned.
ExecuteFinish ==
    /\ pc = "returned"
    /\ completed' = TRUE
    /\ current_step' = "images_inserted"
    /\ pc' = "done"
    /\ UNCHANGED <<target_exists, target_doc, num_images, image_files,
                   insertion_plan, batch_plan, sorted_plan, item, doc, calls,
                   output_written, output_file, error, alignment, exception>>
    /\ UNCHANGED otherVars
    /\ UNCHANGED output_path

\* BaseSkill.run, lines 82-83: the exception raised inside execute is caught
\* and handle_error sets error and current_step.
RunHandleError ==
    /\ pc = "raised"
    /\ error' = ErrorMsg(exception)
    /\ current_step' = "error"
    /\ exception' = "None"
    /\ pc' = "done"
    /\ UNCHANGED <<target_exists, target_doc, num_images, image_files,
                   insertion_plan, batch_plan, sorted_plan, item, doc, calls,
                   output_written, output_file, completed, alignment>>
    /\ UNCHANGED otherVars
    /\ UNCHANGED output_path

\* ---------------------------------------------------------- input spaces
\* Sequences over S of length at most n.
SeqsUpTo(S, n) == UNION {[1..k -> S] : k \in 0..n}

\* Decisions an oracle may return for n extracted images and a target of
\* np paragraphs: image indexes from -1 (negative) to n (out of range),
\* anchors from -1 (negative) to np + 1 (beyond the end).
Decisions(n, np) ==
    [image_index : -1..n, insert_after_para : -1..(np + 1)]

\* Entries insert_images_batch may be called with.
PlanItems(n, np) ==
    [image_path : {TempPath(k) : k \in 0..(n - 1)},
     insert_after_para : -1..(np + 1)]

AllPaths(n) == {TempPath(k) : k \in 0..(n - 1)}

\* The extracted files that still exist: all of them, or all but one.
FileSets(n) == {AllPaths(n)} \cup {AllPaths(n) \ {p} : p \in AllPaths(n)}

\* The structure create_initial_state stores: target_structure = {}.
\* stored tells whether state["target_structure"] was assigned.
NoStructure ==
    [total_paragraphs |-> 0, paragraphs |-> <<>>, headings |-> <<>>,
     empty_paragraphs |-> <<>>, stored |-> FALSE]

\* No answer: the oracle is not part of the run.
NoResponse == [kind |-> "none", fenced |-> FALSE, items |-> <<>>]

\* No provider was created (create_provider raised, or was not called).
NoProvider == [class |-> "None", provider_name |-> <<>>]

\* The state of parse_llm_response and create_provider while neither is
\* called: an empty text, the configuration config.py has without a .env
\* file (LLM_PROVIDER "glm", no key), no argument and no provider.
CallInit ==
    /\ text = <<>>
    /\ depth = 0
    /\ config = [LLM_PROVIDER |-> <<"g", "l", "m">>, GLM_API_KEY |-> "",
                 GEMINI_API_KEY |-> ""]
    /\ provider_name = <<>>
    /\ provider = NoProvider

\* The rest of the state when the insertion step, or insert_images_batch, is
\* looked at on its own.
OtherInit ==
    /\ node = "insert_images"
    /\ source_exists = TRUE
    /\ rels = <<>>
    /\ rel_item = 0
    /\ images = <<>>
    /\ temp_dir = {}
    /\ adoc = <<>>
    /\ structure = NoStructure
    /\ response = NoResponse
    /\ oracle_calls = 0
    /\ CallInit

\* ------------------------------------------------------- specifications
\* The insertion step of the workflow: ImageInserterSkill.run on the state the
\* planning step left.
Init ==
    /\ target_exists \in BOOLEAN
    /\ \E np \in 0..MaxParas :
          /\ target_doc = (IF target_exists THEN TargetDoc(np) ELSE <<>>)
          /\ (~target_exists => np = 0)
          /\ num_images \in 0..MaxImages
          /\ image_files \in FileSets(num_images)
          /\ insertion_plan \in SeqsUpTo(Decisions(num_images, np), MaxPlan)
    /\ batch_plan = <<>>
    /\ sorted_plan = <<>>
    /\ item = 0
    /\ doc = <<>>
    /\ calls = <<>>
    /\ output_written = FALSE
    /\ output_file = <<>>
    /\ error = NoError
    /\ current_step = "insertion_planned"
    /\ completed = FALSE
    /\ alignment = IMAGE_ALIGNMENT
    /\ exception = "None"
    /\ pc = "run"
    /\ OtherInit
    /\ target_path = TARGET_DOC_PATH
    /\ output_path = NoPath

Next ==
    \/ RunInvalidInput
    \/ ExecuteBuildPlan
    \/ ExecuteBuildRaises
    \/ BatchOpen
    \/ BatchApply
    \/ BatchApplyRaises
    \/ BatchSave
    \/ ExecuteFinish
    \/ RunHandleError

Spec == Init /\ [][Next]_vars

\* insert_images_batch called on its own: a target document, a plan of
\* (image_path, insert_after_para) entries and an alignment.
InitBatch ==
    /\ target_exists = TRUE
    /\ \E np \in 0..MaxParas :
          /\ target_doc = TargetDoc(np)
          /\ batch_plan \in SeqsUpTo(PlanItems(MaxImages, np), MaxPlan)
    /\ num_images = MaxImages
    /\ image_files \in {AllPaths(MaxImages), AllPaths(MaxImages) \ {TempPath(0)}}
    /\ insertion_plan = <<>>
    /\ sorted_plan = <<>>
    /\ item = 0
    /\ doc = <<>>
    /\ calls = <<>>
    /\ output_written = FALSE
    /\ output_file = <<>>
    /\ error = NoError
    /\ current_step = "insertion_planned"
    /\ completed = FALSE
    /\ alignment \in {"RIGHT", "justify"}
    /\ exception = "None"
    /\ pc = "insert_images_batch"
    /\ OtherInit
    /\ target_path = TARGET_DOC_PATH
    /\ output_path = OutputPath(TARGET_DOC_PATH)

NextBatch ==
    \/ BatchOpen
    \/ BatchApply
    \/ BatchApplyRaises
    \/ BatchSave

SpecBatch == InitBatch /\ [][NextBatch]_vars

\* insert_images_batch on plans of up to MaxShiftPlan entries whose anchors
\* are paragraphs of the target or its end, every image file present.
InitShift ==
    /\ target_exists = TRUE
    /\ \E np \in 1..MaxParas :
          /\ target_doc = TargetDoc(np)
          /\ batch_plan \in
                SeqsUpTo([image_path : {TempPath(0)},
                          insert_after_para : 0..np], MaxShiftPlan)
    /\ num_images = 1
    /\ image_files = AllPaths(1)
    /\ insertion_plan = <<>>
    /\ sorted_plan = <<>>
    /\ item = 0
    /\ doc = <<>>
    /\ calls = <<>>
    /\ output_written = FALSE
    /\ output_file = <<>>
    /\ error = NoError
    /\ current_step = "insertion_planned"
    /\ completed = FALSE
    /\ alignment = IMAGE_ALIGNMENT
    /\ exception = "None"
    /\ pc = "insert_images_batch"
    /\ target_path = TARGET_DOC_PATH
    /\ output_path = OutputPath(TARGET_DOC_PATH)
    /\ node = "insert_images"
    /\ source_exists = TRUE
    /\ rels = <<>>
    /\ rel_item = 0
    /\ images = <<>>
    /\ temp_dir = {}
    /\ adoc = <<>>
    /\ structure = NoStructure
    /\ response = NoResponse
    /\ oracle_calls = 0
    /\ text = <<>>
    /\ depth = 0
    /\ config = [LLM_PROVIDER |-> <<"g", "l", "m">>, GLM_API_KEY |-> "",
                 GEMINI_API_KEY |-> ""]
    /\ provider_name = <<>>
    /\ provider = NoProvider

NextShift ==
    \/ BatchOpen
    \/ BatchApply
    \/ BatchSave

SpecShift == InitShift /\ [][NextShift]_vars

\* The target paths a run is given: in the target directory or in the output
\* directory itself, with a name that does or does not end in "_result".
TargetPaths ==
    [dir : {"to", OUTPUT_DOC_DIR},
     stem : {<<"0000000">>, <<"0000000", "_result">>},
     suffix : {".docx", ""}]

\* The insertion step on every target path, with every image present and
\* every decision in range.
InitPaths ==
    /\ target_exists = TRUE
    /\ \E np \in 0..MaxParas :
          /\ target_doc = TargetDoc(np)
          /\ insertion_plan \in
                SeqsUpTo([image_index : 0..(MaxImages - 1),
                          insert_after_para : 0..np], MaxPlan)
    /\ num_images = MaxImages
    /\ image_files = AllPaths(MaxImages)
    /\ batch_plan = <<>>
    /\ sorted_plan = <<>>
    /\ item = 0
    /\ doc = <<>>
    /\ calls = <<>>
    /\ output_written = FALSE
    /\ output_file = <<>>
    /\ error = NoError
    /\ current_step = "insertion_planned"
    /\ completed = FALSE
    /\ alignment = IMAGE_ALIGNMENT
    /\ exception = "None"
    /\ pc = "run"
    /\ OtherInit
    /\ target_path \in TargetPaths
    /\ output_path = NoPath

NextPaths ==
    \/ RunInvalidInput
    \/ ExecuteBuildPlan
    \/ BatchOpen
    \/ BatchApply
    \/ BatchSave
    \/ ExecuteFinish

SpecPaths == InitPaths /\ [][NextPaths]_vars

\* --------------------------------------------- analyze_document_structure
\* The variables of the insertion step other than the position pc.
stepVars == <<target_exists, target_doc, num_images, image_files,
              insertion_plan, batch_plan, sorted_plan, item, doc, calls,
              output_written, output_file, error, current_step, completed,
              alignment, exception, output_path, target_path, text, depth,
              config, provider_name, provider>>

\* A paragraph as python-docx hands it over: para.text is a sequence of
\* characters, para.style.name a sequence of pieces, each a blank " ", a
\* decimal digit, or a run of other characters ("Heading", "Normal", ...).
Digits == {"0", "1", "2", "3", "4", "5", "6", "7", "8", "9"}

DigitValue(c) ==
    CASE c = "0" -> 0 [] c = "1" -> 1 [] c = "2" -> 2 [] c = "3" -> 3
      [] c = "4" -> 4 [] c = "5" -> 5 [] c = "6" -> 6 [] c = "7" -> 7
      [] c = "8" -> 8 [] c = "9" -> 9

\* str.strip(): the blanks at both ends go, the ones inside stay.
RECURSIVE LStrip(_)
LStrip(t) ==
    IF t # <<>> /\ Head(t) = " " THEN LStrip(Tail(t)) ELSE t

RECURSIVE RStrip(_)
RStrip(t) ==
    IF t # <<>> /\ t[Len(t)] = " " THEN RStrip(SubSeq(t, 1, Len(t) - 1)) ELSE t

Strip(t) == RStrip(LStrip(t))

\* style.startswith('Heading')
StartsWithHeading(style) == style # <<>> /\ Head(style) = "Heading"

\* str.split(): the maximal runs of non-blank pieces, in order. cur is the
\* run being read.
RECURSIVE SplitFrom(_, _, _)
SplitFrom(t, cur, acc) ==
    IF t = <<>>
    THEN IF cur = <<>> THEN acc ELSE Append(acc, cur)
    ELSE IF Head(t) = " "
         THEN SplitFrom(Tail(t), <<>>, IF cur = <<>> THEN acc ELSE Append(acc, cur))
         ELSE SplitFrom(Tail(t), Append(cur, Head(t)), acc)

Split(t) == SplitFrom(t, <<>>, <<>>)

\* style.split()[-1] raises IndexError when there is no token.
LastTokenRaises(style) == Split(style) = <<>>

LastToken(style) == Split(style)[Len(Split(style))]

\* int(token) raises ValueError unless the token is a decimal numeral.
IntRaises(token) == token = <<>> \/ \E k \in 1..Len(token) : token[k] \notin Digits

RECURSIVE IntOf(_)
IntOf(token) ==
    IF token = <<>> THEN 0
    ELSE 10 * IntOf(SubSeq(token, 1, Len(token) - 1)) + DigitValue(token[Len(token)])

\* Mutant of HeadingLevel: the level is parsed for every style.
HeadingLevelOfAnyStyle(style) ==
    IF LastTokenRaises(style) \/ IntRaises(LastToken(style))
    THEN <<>>
    ELSE <<IntOf(LastToken(style))>>

\* heading_level, lines 136-142: None (<<>>) unless the style is a heading
\* style and int(style.split()[-1]) does not raise; <<n>> is the level n.
HeadingLevel(style) ==
    IF ~StartsWithHeading(style) THEN <<>>
    ELSE IF LastTokenRaises(style) \/ IntRaises(LastToken(style))
         THEN <<>>
         ELSE <<IntOf(LastToken(style))>>

\* Mutant of ParagraphInfo: the records are numbered from one.
ParagraphInfoOneBased(idx, para) ==
    [index |-> idx + 1,
     text |-> Strip(para.text),
     style |-> para.style,
     is_heading |-> StartsWithHeading(para.style),
     heading_level |-> HeadingLevel(para.style)]

\* ParagraphInfo(index=idx, text=text, style=style, is_heading=...,
\* heading_level=...), lines 131-155.
ParagraphInfo(idx, para) ==
    [index |-> idx,
     text |-> Strip(para.text),
     style |-> para.style,
     is_heading |-> StartsWithHeading(para.style),
     heading_level |-> HeadingLevel(para.style)]

\* Mutant of NotText: the test reads the text before it is stripped.
NotTextRaw(para) == para.text = <<>>

\* `not text`, line 145, on text = para.text.strip().
NotText(para) == Strip(para.text) = <<>>

\* analyze_document_structure, lines 126-129: the document is loaded and the
\* three lists start empty.
AnalyzeOpen ==
    /\ pc = "analyze_document_structure"
    /\ structure' = NoStructure
    /\ pc' = "analyze_loop"
    /\ UNCHANGED stepVars
    /\ UNCHANGED <<node, source_exists, rels, rel_item, images, temp_dir, adoc,
                   response, oracle_calls>>

\* One pass of the loop, lines 130-158, on paragraph idx (zero-based).
AnalyzeParagraph ==
    /\ pc = "analyze_loop"
    /\ Len(structure.paragraphs) < Len(adoc)
    /\ LET idx == Len(structure.paragraphs)
           para == adoc[idx + 1]
           para_info == ParagraphInfo(idx, para)
       IN structure' =
            [total_paragraphs |-> structure.total_paragraphs,
             paragraphs |-> Append(structure.paragraphs, para_info),
             headings |-> IF para_info.is_heading
                          THEN Append(structure.headings, para_info)
                          ELSE structure.headings,
             empty_paragraphs |-> IF NotText(para)
                                  THEN Append(structure.empty_paragraphs, idx)
                                  ELSE structure.empty_paragraphs,
             stored |-> structure.stored]
    /\ UNCHANGED pc
    /\ UNCHANGED stepVars
    /\ UNCHANGED <<node, source_exists, rels, rel_item, images, temp_dir, adoc,
                   response, oracle_calls>>

\* Lines 160-170: the structure is built with total_paragraphs =
\* len(doc.paragraphs) and returned.
AnalyzeReturn ==
    /\ pc = "analyze_loop"
    /\ Len(structure.paragraphs) = Len(adoc)
    /\ structure' = [structure EXCEPT !.total_paragraphs = Len(adoc)]
    /\ pc' = "analyze_returned"
    /\ UNCHANGED stepVars
    /\ UNCHANGED <<node, source_exists, rels, rel_item, images, temp_dir, adoc,
                   response, oracle_calls>>

\* The paragraph texts and style names the analysed documents are made of.
Texts ==
    {<<>>, <<" ">>, <<" ", " ">>, <<"a">>, <<" ", "a", " ">>, <<"a", " ", "a">>}

Styles ==
    {<<"Normal">>,
     <<"Heading", " ", "1">>,
     <<"Heading", " ", "1", "2">>,
     <<"Heading">>,
     <<"Heading", "1">>,
     <<"Heading", " ", "1", " ", "Char">>,
     <<"Title", " ", "1">>}

\* analyze_document_structure called on its own: any document of up to
\* MaxParas paragraphs.
InitAnalyze ==
    /\ target_exists = TRUE
    /\ target_doc = <<>>
    /\ num_images = 0
    /\ image_files = {}
    /\ insertion_plan = <<>>
    /\ batch_plan = <<>>
    /\ sorted_plan = <<>>
    /\ item = 0
    /\ doc = <<>>
    /\ calls = <<>>
    /\ output_written = FALSE
    /\ output_file = <<>>
    /\ error = NoError
    /\ current_step = "images_extracted"
    /\ completed = FALSE
    /\ alignment = IMAGE_ALIGNMENT
    /\ exception = "None"
    /\ pc = "analyze_document_structure"
    /\ target_path = TARGET_DOC_PATH
    /\ output_path = NoPath
    /\ node = "analyze_target"
    /\ source_exists = TRUE
    /\ rels = <<>>
    /\ rel_item = 0
    /\ images = <<>>
    /\ temp_dir = {}
    /\ adoc \in SeqsUpTo([text : Texts, style : Styles], MaxParas)
    /\ structure = NoStructure
    /\ response = NoResponse
    /\ oracle_calls = 0
    /\ CallInit

NextAnalyze ==
    \/ AnalyzeOpen
    \/ AnalyzeParagraph
    \/ AnalyzeReturn

SpecAnalyze == InitAnalyze /\ [][NextAnalyze]_vars

\* ------------------------------------------------ extract_images_from_docx
\* A relationship of the document part: its type, its target reference as a
\* sequence of pieces, its target mode, and the content type of the part it
\* points to. The image relationships of a package written by Word point to
\* media/image1.png, those of a package written by pandoc to media/rId25.jpg.
WordImage ==
    [reltype |-> "image", target_ref |-> <<"media/", "image", "1.png">>,
     external |-> FALSE, content_type |-> <<"image", "/", "png">>]

PandocImage ==
    [reltype |-> "image", target_ref |-> <<"media/", "rId", "25.jpg">>,
     external |-> FALSE, content_type |-> <<"image", "/", "jpeg">>]

StylesPart ==
    [reltype |-> "styles", target_ref |-> <<"styles.xml">>,
     external |-> FALSE, content_type |-> <<"application", "/", "xml">>]

ImageLink ==
    [reltype |-> "hyperlink",
     target_ref |-> <<"https://example.com/", "image", ".html">>,
     external |-> TRUE, content_type |-> <<>>]

PlainLink ==
    [reltype |-> "hyperlink", target_ref |-> <<"https://example.com/">>,
     external |-> TRUE, content_type |-> <<>>]

Rels == {WordImage, PandocImage, StylesPart, ImageLink, PlainLink}

\* "image" in rel.target_ref, line 70.
IsImageRel(rel) == \E k \in 1..Len(rel.target_ref) : rel.target_ref[k] = "image"

\* rel.target_part raises ValueError for a relationship whose target mode is
\* External (docx.opc.rel._Relationship.target_part).
TargetPartRaises(rel) == rel.external

\* ext = content_type.split('/')[-1]; 'jpeg' becomes 'jpg'. Lines 76-78.
Ext(content_type) ==
    LET last == content_type[Len(content_type)]
    IN IF last = "jpeg" THEN "jpg" ELSE last

\* filename = f"image_{image_index}.{ext}", line 81.
Filename(image_index, ext) == [image_index |-> image_index, ext |-> ext]

\* ImageInfo(index=image_index, rel_id=rel_id, filename=..., content_type=...,
\* temp_path=...), lines 96-105. rel_id is the place of the relationship in
\* the table; size and dimensions are left out.
ImageInfo(image_index, rel_id, rel) ==
    [index |-> image_index,
     rel_id |-> rel_id,
     filename |-> Filename(image_index, Ext(rel.content_type)),
     content_type |-> rel.content_type,
     temp_path |-> Filename(image_index, Ext(rel.content_type))]

\* Lines 60-66: the document is loaded, images = [], image_index = 0.
ExtractOpen ==
    /\ pc = "extract_images_from_docx"
    /\ images' = <<>>
    /\ rel_item' = 1
    /\ pc' = "extract_loop"
    /\ UNCHANGED stepVars
    /\ UNCHANGED <<node, source_exists, rels, temp_dir, adoc, structure,
                   response, oracle_calls>>

\* One pass of the loop on a relationship the test of line 70 lets through:
\* the file is written (lines 84-85) and the record appended (lines 96-107).
ExtractImage ==
    /\ pc = "extract_loop"
    /\ rel_item <= Len(rels)
    /\ IsImageRel(rels[rel_item])
    /\ ~TargetPartRaises(rels[rel_item])
    /\ LET image_index == Len(images)
           img_info == ImageInfo(image_index, rel_item, rels[rel_item])
       IN /\ temp_dir' = temp_dir \cup {img_info.temp_path}
          /\ images' = Append(images, img_info)
    /\ rel_item' = rel_item + 1
    /\ UNCHANGED pc
    /\ UNCHANGED stepVars
    /\ UNCHANGED <<node, source_exists, rels, adoc, structure, response,
                   oracle_calls>>

\* One pass of the loop on a relationship the test of line 70 rejects.
ExtractSkip ==
    /\ pc = "extract_loop"
    /\ rel_item <= Len(rels)
    /\ ~IsImageRel(rels[rel_item])
    /\ rel_item' = rel_item + 1
    /\ UNCHANGED pc
    /\ UNCHANGED stepVars
    /\ UNCHANGED <<node, source_exists, rels, images, temp_dir, adoc,
                   structure, response, oracle_calls>>

\* Line 71 on an external relationship the test lets through: rel.target_part
\* raises and nothing in the function catches it.
ExtractRaises ==
    /\ pc = "extract_loop"
    /\ rel_item <= Len(rels)
    /\ IsImageRel(rels[rel_item])
    /\ TargetPartRaises(rels[rel_item])
    /\ exception' = "ValueError"
    /\ pc' = "raised"
    /\ UNCHANGED <<target_exists, target_doc, num_images, image_files,
                   insertion_plan, batch_plan, sorted_plan, item, doc, calls,
                   output_written, output_file, error, current_step,
                   completed, alignment, output_path, target_path, text,
                   depth, config, provider_name, provider>>
    /\ UNCHANGED <<node, source_exists, rels, rel_item, images, temp_dir, adoc,
                   structure, response, oracle_calls>>

\* Lines 111-112: the list is returned after the last relationship.
ExtractReturn ==
    /\ pc = "extract_loop"
    /\ rel_item > Len(rels)
    /\ pc' = "extract_returned"
    /\ UNCHANGED stepVars
    /\ UNCHANGED <<node, source_exists, rels, rel_item, images, temp_dir, adoc,
                   structure, response, oracle_calls>>

\* extract_images_from_docx called on its own: any relationship table of up to
\* MaxRels entries, and an empty output directory.
InitExtract ==
    /\ target_exists = TRUE
    /\ target_doc = <<>>
    /\ num_images = 0
    /\ image_files = {}
    /\ insertion_plan = <<>>
    /\ batch_plan = <<>>
    /\ sorted_plan = <<>>
    /\ item = 0
    /\ doc = <<>>
    /\ calls = <<>>
    /\ output_written = FALSE
    /\ output_file = <<>>
    /\ error = NoError
    /\ current_step = "initialized"
    /\ completed = FALSE
    /\ alignment = IMAGE_ALIGNMENT
    /\ exception = "None"
    /\ pc = "extract_images_from_docx"
    /\ target_path = TARGET_DOC_PATH
    /\ output_path = NoPath
    /\ node = "extract_images"
    /\ source_exists = TRUE
    /\ rels \in SeqsUpTo(Rels, MaxRels)
    /\ rel_item = 0
    /\ images = <<>>
    /\ temp_dir = {}
    /\ adoc = <<>>
    /\ structure = NoStructure
    /\ response = NoResponse
    /\ oracle_calls = 0
    /\ CallInit

NextExtract ==
    \/ ExtractOpen
    \/ ExtractImage
    \/ ExtractSkip
    \/ ExtractRaises
    \/ ExtractReturn

SpecExtract == InitExtract /\ [][NextExtract]_vars

\* ------------------------------------------------------------ the workflow
\* The variables no step of the workflow changes outside insert_images_batch
\* and ImageInserterSkill.execute.
batchVars == <<target_exists, target_doc, batch_plan, sorted_plan, item, doc,
               calls, output_written, output_file, completed, alignment,
               output_path, target_path, source_exists, rels, text, depth,
               config, provider_name, provider>>

\* DocxExtractorSkill.validate_input: the source document exists.
ExtractorValidateInput == source_exists

\* DocxAnalyzerSkill.validate_input: the target document exists.
AnalyzerValidateInput == target_exists

\* Mutant of AdvisorValidateInput: the advisor asks whatever the state holds.
AdvisorValidateInputUnchecked == TRUE

\* LLMAdvisorSkill.validate_input: state.get("extracted_images") is not empty.
AdvisorValidateInput == num_images > 0

\* para.text and para.style.name of a paragraph of the target document.
RawPara(p) ==
    [text |-> IF p.text = EmptyText THEN <<>> ELSE <<"a">>,
     style |-> IF p.style = "Heading 1" THEN <<"Heading", " ", "1">>
               ELSE <<"Normal">>]

\* Document(target_path).paragraphs as analyze_document_structure reads them.
RawDoc(d) == [k \in 1..Len(d) |-> RawPara(d[k])]

\* json.loads(response) raises JSONDecodeError: the text is not JSON, or it
\* is JSON wrapped in a ```json fence.
JsonLoadsRaises(r) == r.fenced \/ r.kind = "garbage"

\* The text between the ```json fence and the closing fence, lines 216-218.
Unfence(r) == [r EXCEPT !.fenced = FALSE]

\* all(k in item for k in ["image_index", "insert_after_para"]), line 203.
HasKeys(it) == it.has_keys

\* The decision parse_llm_response appends for an item, lines 206-210 (the
\* reason is left out).
Decision(it) ==
    [image_index |-> it.image_index, insert_after_para |-> it.insert_after_para]

\* Mutant of ParseJson: a text that is not JSON gives a plan made up by the
\* parser.
ParseJsonGuessing(r) ==
    IF r.kind = "garbage"
    THEN [raised |-> "None",
          plan |-> <<[image_index |-> 0, insert_after_para |-> 0]>>]
    ELSE IF r.kind # "list"
         THEN [raised |-> "Response must be a JSON array", plan |-> <<>>]
         ELSE IF \E k \in 1..Len(r.items) : ~HasKeys(r.items[k])
              THEN [raised |-> "Missing required keys", plan |-> <<>>]
              ELSE [raised |-> "None",
                    plan |-> [k \in 1..Len(r.items) |-> Decision(r.items[k])]]

\* parse_llm_response on a text without fence, lines 193-212 and 219: the
\* exception it raises ("None" for none) and the plan it returns.
ParseJson(r) ==
    IF r.kind = "garbage"
    THEN [raised |-> "JSONDecodeError", plan |-> <<>>]
    ELSE IF r.kind # "list"
         THEN [raised |-> "Response must be a JSON array", plan |-> <<>>]
         ELSE IF \E k \in 1..Len(r.items) : ~HasKeys(r.items[k])
              THEN [raised |-> "Missing required keys", plan |-> <<>>]
              ELSE [raised |-> "None",
                    plan |-> [k \in 1..Len(r.items) |-> Decision(r.items[k])]]

\* parse_llm_response, lines 193-219: a text json.loads rejects is parsed
\* again without its ```json fence when it has one.
ParseLlmResponse(r) ==
    IF JsonLoadsRaises(r) /\ r.fenced THEN ParseJson(Unfence(r)) ELSE ParseJson(r)

\* Mutant of CountMismatchRaises: a plan of another size than the number of
\* images is an error.
CountMismatchIsError(plan, n) == Len(plan) # n

\* execute, lines 277-282: len(insertion_plan) != num_images is logged as a
\* warning and nothing is raised.
CountMismatchRaises(plan, n) == FALSE

\* Mutant of NextNode: a conditional edge ends the run after a failed step.
NextNodeEndingOnError(n) ==
    IF error # NoError THEN "END"
    ELSE CASE n = "extract_images" -> "analyze_target"
           [] n = "analyze_target" -> "llm_decision"
           [] n = "llm_decision" -> "insert_images"
           [] n = "insert_images" -> "verify_result"
           [] n = "verify_result" -> "END"

\* The edges of the graph, create_bid_agent lines 133-139.
NextNode(n) ==
    CASE n = "extract_images" -> "analyze_target"
      [] n = "analyze_target" -> "llm_decision"
      [] n = "llm_decision" -> "insert_images"
      [] n = "insert_images" -> "verify_result"
      [] n = "verify_result" -> "END"

\* The items of the array the planner answers with, for n images and a target
\* of np paragraphs: image 0 after paragraph 0, image 0 after the last
\* paragraph, an image index that is out of range, an item without its keys.
OracleItems(n, np) ==
    {[has_keys |-> TRUE, image_index |-> 0, insert_after_para |-> 0],
     [has_keys |-> TRUE, image_index |-> 0, insert_after_para |-> np],
     [has_keys |-> TRUE, image_index |-> n, insert_after_para |-> 0],
     [has_keys |-> FALSE, image_index |-> 0, insert_after_para |-> 0]}

\* The answers of the planner: llm.invoke raises, or returns a text that is
\* not JSON, a JSON object, or a JSON array of up to MaxPlan items, each text
\* bare or wrapped in a ```json fence.
Responses(n, np) ==
    {[kind |-> "raise", fenced |-> FALSE, items |-> <<>>]}
    \cup [kind : {"garbage", "object"}, fenced : BOOLEAN, items : {<<>>}]
    \cup [kind : {"list"}, fenced : BOOLEAN,
          items : SeqsUpTo(OracleItems(n, np), MaxPlan)]

\* DocxExtractorSkill.run: validate_input fails.
ExtractorInvalidInput ==
    /\ node = "extract_images"
    /\ pc = "run"
    /\ ~ExtractorValidateInput
    /\ error' = ErrorMsg("Invalid input state for DocxExtractor")
    /\ current_step' = "error"
    /\ pc' = "done"
    /\ UNCHANGED batchVars
    /\ UNCHANGED <<num_images, image_files, insertion_plan, exception, node,
                   rel_item, images, temp_dir, adoc, structure, response,
                   oracle_calls>>

\* DocxExtractorSkill.execute, lines 39-45: extract_images_from_docx is called.
ExtractorExecute ==
    /\ node = "extract_images"
    /\ pc = "run"
    /\ ExtractorValidateInput
    /\ pc' = "extract_images_from_docx"
    /\ UNCHANGED batchVars
    /\ UNCHANGED <<num_images, image_files, insertion_plan, error,
                   current_step, exception, node, rel_item, images, temp_dir,
                   adoc, structure, response, oracle_calls>>

\* DocxExtractorSkill.execute, lines 47-67: the records are stored in
\* state["extracted_images"]; the files they name are the ones just written.
ExtractorFinish ==
    /\ node = "extract_images"
    /\ pc = "extract_returned"
    /\ num_images' = Len(images)
    /\ image_files' = {TempPath(images[k].index) : k \in 1..Len(images)}
    /\ current_step' = "images_extracted"
    /\ pc' = "done"
    /\ UNCHANGED batchVars
    /\ UNCHANGED <<insertion_plan, error, exception, node, rel_item, images,
                   temp_dir, adoc, structure, response, oracle_calls>>

\* DocxAnalyzerSkill.run: validate_input fails.
AnalyzerInvalidInput ==
    /\ node = "analyze_target"
    /\ pc = "run"
    /\ ~AnalyzerValidateInput
    /\ error' = ErrorMsg("Invalid input state for DocxAnalyzer")
    /\ current_step' = "error"
    /\ pc' = "done"
    /\ UNCHANGED batchVars
    /\ UNCHANGED <<num_images, image_files, insertion_plan, exception, node,
                   rel_item, images, temp_dir, adoc, structure, response,
                   oracle_calls>>

\* DocxAnalyzerSkill.execute, lines 38-43: analyze_document_structure is called
\* on the target document.
AnalyzerExecute ==
    /\ node = "analyze_target"
    /\ pc = "run"
    /\ AnalyzerValidateInput
    /\ adoc' = RawDoc(target_doc)
    /\ pc' = "analyze_document_structure"
    /\ UNCHANGED batchVars
    /\ UNCHANGED <<num_images, image_files, insertion_plan, error,
                   current_step, exception, node, rel_item, images, temp_dir,
                   structure, response, oracle_calls>>

\* DocxAnalyzerSkill.execute, lines 45-80: the structure is stored in
\* state["target_structure"].
AnalyzerFinish ==
    /\ node = "analyze_target"
    /\ pc = "analyze_returned"
    /\ structure' = [structure EXCEPT !.stored = TRUE]
    /\ current_step' = "target_analyzed"
    /\ pc' = "done"
    /\ UNCHANGED batchVars
    /\ UNCHANGED <<num_images, image_files, insertion_plan, error, exception,
                   node, rel_item, images, temp_dir, adoc, response,
                   oracle_calls>>

\* LLMAdvisorSkill.run: validate_input fails.
AdvisorInvalidInput ==
    /\ node = "llm_decision"
    /\ pc = "run"
    /\ ~AdvisorValidateInput
    /\ error' = ErrorMsg("Invalid input state for LLMAdvisor")
    /\ current_step' = "error"
    /\ pc' = "done"
    /\ UNCHANGED batchVars
    /\ UNCHANGED <<num_images, image_files, insertion_plan, exception, node,
                   rel_item, images, temp_dir, adoc, structure, response,
                   oracle_calls>>

\* build_prompt, line 68: structure["paragraphs"] raises KeyError on the empty
\* target_structure of a run whose analysis step failed.
AdvisorBuildPromptRaises ==
    /\ node = "llm_decision"
    /\ pc = "run"
    /\ AdvisorValidateInput
    /\ ~structure.stored
    /\ exception' = "KeyError"
    /\ pc' = "raised"
    /\ UNCHANGED batchVars
    /\ UNCHANGED <<num_images, image_files, insertion_plan, error,
                   current_step, node, rel_item, images, temp_dir, adoc,
                   structure, response, oracle_calls>>

\* execute, lines 263-267: self.llm.invoke(prompt) returns a text.
AdvisorInvoke ==
    /\ node = "llm_decision"
    /\ pc = "run"
    /\ AdvisorValidateInput
    /\ structure.stored
    /\ \E r \in Responses(num_images, Len(target_doc)) :
          /\ r.kind # "raise"
          /\ response' = r
    /\ oracle_calls' = oracle_calls + 1
    /\ pc' = "parse_llm_response"
    /\ UNCHANGED batchVars
    /\ UNCHANGED <<num_images, image_files, insertion_plan, error,
                   current_step, exception, node, rel_item, images, temp_dir,
                   adoc, structure>>

\* execute, line 266: self.llm.invoke(prompt) raises.
AdvisorInvokeRaises ==
    /\ node = "llm_decision"
    /\ pc = "run"
    /\ AdvisorValidateInput
    /\ structure.stored
    /\ response' = [kind |-> "raise", fenced |-> FALSE, items |-> <<>>]
    /\ oracle_calls' = oracle_calls + 1
    /\ exception' = "OracleError"
    /\ pc' = "raised"
    /\ UNCHANGED batchVars
    /\ UNCHANGED <<num_images, image_files, insertion_plan, error,
                   current_step, node, rel_item, images, temp_dir, adoc,
                   structure>>

\* execute, lines 273-304: the parsed plan is stored as it is.
AdvisorStorePlan ==
    /\ node = "llm_decision"
    /\ pc = "parse_llm_response"
    /\ LET parsed == ParseLlmResponse(response)
       IN /\ parsed.raised = "None"
          /\ ~CountMismatchRaises(parsed.plan, num_images)
          /\ insertion_plan' = parsed.plan
    /\ current_step' = "insertion_planned"
    /\ pc' = "done"
    /\ UNCHANGED batchVars
    /\ UNCHANGED <<num_images, image_files, error, exception, node, rel_item,
                   images, temp_dir, adoc, structure, response, oracle_calls>>

\* execute, lines 304-306: parse_llm_response raised and the exception is
\* raised again.
AdvisorParseRaises ==
    /\ node = "llm_decision"
    /\ pc = "parse_llm_response"
    /\ LET parsed == ParseLlmResponse(response)
       IN /\ parsed.raised # "None" \/ CountMismatchRaises(parsed.plan, num_images)
          /\ exception' = (IF parsed.raised # "None" THEN parsed.raised
                           ELSE "CountMismatch")
    /\ pc' = "raised"
    /\ UNCHANGED batchVars
    /\ UNCHANGED <<num_images, image_files, insertion_plan, error,
                   current_step, node, rel_item, images, temp_dir, adoc,
                   structure, response, oracle_calls>>

\* verify_result_node: the state is logged and returned as it is.
VerifyResult ==
    /\ node = "verify_result"
    /\ pc = "run"
    /\ pc' = "done"
    /\ UNCHANGED batchVars
    /\ UNCHANGED <<num_images, image_files, insertion_plan, error,
                   current_step, exception, node, rel_item, images, temp_dir,
                   adoc, structure, response, oracle_calls>>

\* create_bid_agent, lines 133-139: every node has one edge, to the next node.
WorkflowEdge ==
    /\ pc = "done"
    /\ node # "END"
    /\ node' = NextNode(node)
    /\ pc' = "run"
    /\ UNCHANGED batchVars
    /\ UNCHANGED <<num_images, image_files, insertion_plan, error,
                   current_step, exception, rel_item, images, temp_dir, adoc,
                   structure, response, oracle_calls>>

\* The source documents of the workflow: a styles part and n images named as
\* Word names them, or a styles part and a link whose address holds "image".
SourceRels(n) == [k \in 1..(n + 1) |-> IF k = 1 THEN StylesPart ELSE WordImage]

\* create_initial_state, and the files of the run: the source and the target
\* document, each present or missing.
InitWorkflow ==
    /\ source_exists \in BOOLEAN
    /\ target_exists \in BOOLEAN
    /\ \E np \in 0..MaxParas :
          /\ target_doc = (IF target_exists THEN TargetDoc(np) ELSE <<>>)
          /\ (~target_exists => np = 0)
    /\ \/ \E n \in 0..MaxImages : rels = SourceRels(n)
       \/ rels = <<StylesPart, ImageLink>>
    /\ (~source_exists => rels = SourceRels(0))
    /\ num_images = 0
    /\ image_files = {}
    /\ insertion_plan = <<>>
    /\ batch_plan = <<>>
    /\ sorted_plan = <<>>
    /\ item = 0
    /\ doc = <<>>
    /\ calls = <<>>
    /\ output_written = FALSE
    /\ output_file = <<>>
    /\ error = NoError
    /\ current_step = "initialized"
    /\ completed = FALSE
    /\ alignment = IMAGE_ALIGNMENT
    /\ exception = "None"
    /\ pc = "run"
    /\ target_path = TARGET_DOC_PATH
    /\ output_path = NoPath
    /\ node = "extract_images"
    /\ rel_item = 0
    /\ images = <<>>
    /\ temp_dir = {}
    /\ adoc = <<>>
    /\ structure = NoStructure
    /\ response = NoResponse
    /\ oracle_calls = 0
    /\ CallInit

NextWorkflow ==
    \/ ExtractorInvalidInput
    \/ ExtractorExecute
    \/ ExtractOpen
    \/ ExtractImage
    \/ ExtractSkip
    \/ ExtractRaises
    \/ ExtractReturn
    \/ ExtractorFinish
    \/ AnalyzerInvalidInput
    \/ AnalyzerExecute
    \/ AnalyzeOpen
    \/ AnalyzeParagraph
    \/ AnalyzeReturn
    \/ AnalyzerFinish
    \/ AdvisorInvalidInput
    \/ AdvisorBuildPromptRaises
    \/ AdvisorInvoke
    \/ AdvisorInvokeRaises
    \/ AdvisorStorePlan
    \/ AdvisorParseRaises
    \/ RunInvalidInput
    \/ ExecuteBuildPlan
    \/ BatchOpen
    \/ BatchApply
    \/ BatchSave
    \/ ExecuteFinish
    \/ RunHandleError
    \/ VerifyResult
    \/ WorkflowEdge

SpecWorkflow == InitWorkflow /\ [][NextWorkflow]_vars

\* The workflow as app.invoke runs it: a step that can be taken is taken.
SpecWorkflowFair == SpecWorkflow /\ WF_vars(NextWorkflow)

\* ---------------------------------------------------------- create_provider
\* A name is the sequence of its characters; <<>> is the empty string, and
\* the argument None, which `provider_name or config.LLM_PROVIDER` treats
\* alike.
UpperLetters ==
    <<"A", "B", "C", "D", "E", "F", "G", "H", "I", "J", "K", "L", "M",
      "N", "O", "P", "Q", "R", "S", "T", "U", "V", "W", "X", "Y", "Z">>

LowerLetters ==
    <<"a", "b", "c", "d", "e", "f", "g", "h", "i", "j", "k", "l", "m",
      "n", "o", "p", "q", "r", "s", "t", "u", "v", "w", "x", "y", "z">>

\* str.lower() on one character.
LowerChar(c) ==
    IF \E k \in 1..Len(UpperLetters) : UpperLetters[k] = c
    THEN LowerLetters[CHOOSE k \in 1..Len(UpperLetters) : UpperLetters[k] = c]
    ELSE c

\* provider.lower(), line 32.
Lower(name) == [k \in 1..Len(name) |-> LowerChar(name[k])]

\* provider = provider_name or config.LLM_PROVIDER, line 31.
SelectedName(name, cfg) == IF name # <<>> THEN name ELSE cfg.LLM_PROVIDER

\* Mutant of KeyMissing: a provider is built without its key.
KeyMissingIgnored(key) == FALSE

\* `not config.GLM_API_KEY`, `not config.GEMINI_API_KEY`, lines 37 and 48.
KeyMissing(key) == key = ""

\* create_provider, lines 31-61: the exception it raises ("None" for none)
\* and the provider it returns; GLMProvider.provider_name is "glm",
\* GeminiProvider.provider_name is "gemini".
CreateProviderResult(name, cfg) ==
    LET p == Lower(SelectedName(name, cfg))
    IN IF p = <<"g", "l", "m">>
       THEN IF KeyMissing(cfg.GLM_API_KEY)
            THEN [raised |-> "ValueError", provider |-> NoProvider]
            ELSE [raised |-> "None",
                  provider |-> [class |-> "GLMProvider",
                                provider_name |-> <<"g", "l", "m">>]]
       ELSE IF p = <<"g", "e", "m", "i", "n", "i">>
            THEN IF KeyMissing(cfg.GEMINI_API_KEY)
                 THEN [raised |-> "ValueError", provider |-> NoProvider]
                 ELSE [raised |-> "None",
                       provider |-> [class |-> "GeminiProvider",
                                     provider_name |->
                                        <<"g", "e", "m", "i", "n", "i">>]]
            ELSE [raised |-> "ValueError", provider |-> NoProvider]

\* create_llm_provider(provider_name) returns a provider.
CreateProvider ==
    /\ pc = "create_provider"
    /\ CreateProviderResult(provider_name, config).raised = "None"
    /\ provider' = CreateProviderResult(provider_name, config).provider
    /\ pc' = "provider_returned"
    /\ UNCHANGED <<target_exists, target_doc, num_images, image_files,
                   insertion_plan, batch_plan, sorted_plan, item, doc, calls,
                   output_written, output_file, error, current_step,
                   completed, alignment, exception, output_path, target_path>>
    /\ UNCHANGED <<node, source_exists, rels, rel_item, images, temp_dir, adoc,
                   structure, response, oracle_calls, text, depth, config,
                   provider_name>>

\* create_llm_provider(provider_name) raises ValueError.
CreateProviderRaises ==
    /\ pc = "create_provider"
    /\ CreateProviderResult(provider_name, config).raised # "None"
    /\ exception' = CreateProviderResult(provider_name, config).raised
    /\ pc' = "provider_raised"
    /\ UNCHANGED <<target_exists, target_doc, num_images, image_files,
                   insertion_plan, batch_plan, sorted_plan, item, doc, calls,
                   output_written, output_file, error, current_step,
                   completed, alignment, output_path, target_path>>
    /\ UNCHANGED <<node, source_exists, rels, rel_item, images, temp_dir, adoc,
                   structure, response, oracle_calls, text, depth, config,
                   provider_name, provider>>

\* The provider names given as argument or set as LLM_PROVIDER.
Names ==
    {<<"g", "l", "m">>, <<"G", "L", "M">>,
     <<"g", "e", "m", "i", "n", "i">>, <<"G", "e", "m", "i", "n", "i">>,
     <<"o", "p", "e", "n", "a", "i">>, <<"g", "l", "m", " ">>}

\* create_llm_provider called on its own, with or without a name, under
\* every configuration of the provider and of the two keys.
InitFactory ==
    /\ target_exists = TRUE
    /\ target_doc = <<>>
    /\ num_images = 0
    /\ image_files = {}
    /\ insertion_plan = <<>>
    /\ batch_plan = <<>>
    /\ sorted_plan = <<>>
    /\ item = 0
    /\ doc = <<>>
    /\ calls = <<>>
    /\ output_written = FALSE
    /\ output_file = <<>>
    /\ error = NoError
    /\ current_step = "initialized"
    /\ completed = FALSE
    /\ alignment = IMAGE_ALIGNMENT
    /\ exception = "None"
    /\ pc = "create_provider"
    /\ target_path = TARGET_DOC_PATH
    /\ output_path = NoPath
    /\ node = "create_provider"
    /\ source_exists = TRUE
    /\ rels = <<>>
    /\ rel_item = 0
    /\ images = <<>>
    /\ temp_dir = {}
    /\ adoc = <<>>
    /\ structure = NoStructure
    /\ response = NoResponse
    /\ oracle_calls = 0
    /\ text = <<>>
    /\ depth = 0
    /\ config \in [LLM_PROVIDER : Names \cup {<<>>}, GLM_API_KEY : {"", "key"},
                  GEMINI_API_KEY : {"", "key"}]
    /\ provider_name \in Names \cup {<<>>}
    /\ provider = NoProvider

NextFactory ==
    \/ CreateProvider
    \/ CreateProviderRaises

SpecFactory == InitFactory /\ [][NextFactory]_vars

\* ------------------------------------------- parse_llm_response on a text
\* The response as a sequence of pieces: a backtick, written "tick", the
\* word "json", the JSON array "[]" written "J", the JSON object "{}"
\* written "O", a blank " ", and "x", one other character. Positions count pieces from 0,
\* as str.find and slices count characters: every position the code
\* computes falls between two pieces.
FENCE == <<"tick", "tick", "tick", "json">>
TICKS == <<"tick", "tick", "tick">>

\* s[i:i+len(sub)] == sub
MatchesAt(sub, s, i) ==
    /\ i + Len(sub) <= Len(s)
    /\ SubSeq(s, i + 1, i + Len(sub)) = sub

\* s.find(sub, start): the lowest position from start on where sub begins,
\* -1 when there is none.
Find(sub, s, start) ==
    LET hits == {i \in start..(Len(s) - Len(sub)) : MatchesAt(sub, s, i)}
    IN IF hits = {} THEN -1 ELSE CHOOSE i \in hits : \A j \in hits : i <= j

\* "```json" in response
HasJsonFence(s) == Find(FENCE, s, 0) # -1

\* json_start = response.find("```json") + 7: the fence is four pieces long.
JsonStart(s) == Find(FENCE, s, 0) + Len(FENCE)

\* Mutant of JsonEnd: the block ends at the last "```" of the response.
JsonEndAtLastTicks(s, json_start) ==
    LET hits == {i \in json_start..(Len(s) - Len(TICKS)) : MatchesAt(TICKS, s, i)}
    IN IF hits = {} THEN -1 ELSE CHOOSE i \in hits : \A j \in hits : i >= j

\* json_end = response.find("```", json_start)
JsonEnd(s, json_start) == Find(TICKS, s, json_start)

\* What is left of a piece without its last character.
DropLastChar(piece) ==
    CASE piece = "json" -> <<"x", "x", "x">>
      [] piece \in {"J", "O"} -> <<"x">>
      [] OTHER -> <<>>

\* s[a:b] for a >= 0 and b >= -1; s[a:-1] ends before the last character.
Slice(s, a, b) ==
    IF b >= 0
    THEN IF a >= b THEN <<>> ELSE SubSeq(s, a + 1, b)
    ELSE IF a >= Len(s) THEN <<>>
         ELSE SubSeq(s, a + 1, Len(s) - 1) \o DropLastChar(s[Len(s)])

\* json.loads(response) raises JSONDecodeError: the text is more or less
\* than one JSON value between blanks.
LoadsRaises(s) == Strip(s) \notin {<<"J">>, <<"O">>}

\* isinstance(data, list)
LoadsList(s) == Strip(s) = <<"J">>

\* json_str = response[json_start:json_end].strip()
JsonStr(s) == Strip(Slice(s, JsonStart(s), JsonEnd(s, JsonStart(s))))

\* parse_llm_response, lines 194-213: the text is a JSON array, the plan is
\* returned.
ParseTextReturn ==
    /\ pc = "parse_text"
    /\ ~LoadsRaises(text)
    /\ LoadsList(text)
    /\ pc' = "parse_returned"
    /\ UNCHANGED <<text, depth, exception>>
    /\ UNCHANGED <<target_exists, target_doc, num_images, image_files,
                   insertion_plan, batch_plan, sorted_plan, item, doc, calls,
                   output_written, output_file, error, current_step,
                   completed, alignment, output_path, target_path>>
    /\ UNCHANGED <<node, source_exists, rels, rel_item, images, temp_dir, adoc,
                   structure, response, oracle_calls, config, provider_name,
                   provider>>

\* lines 198-199: the text is JSON but no array, ValueError leaves the call.
ParseTextNotArray ==
    /\ pc = "parse_text"
    /\ ~LoadsRaises(text)
    /\ ~LoadsList(text)
    /\ exception' = "ValueError"
    /\ pc' = "parse_raised"
    /\ UNCHANGED <<text, depth>>
    /\ UNCHANGED <<target_exists, target_doc, num_images, image_files,
                   insertion_plan, batch_plan, sorted_plan, item, doc, calls,
                   output_written, output_file, error, current_step,
                   completed, alignment, output_path, target_path>>
    /\ UNCHANGED <<node, source_exists, rels, rel_item, images, temp_dir, adoc,
                   structure, response, oracle_calls, config, provider_name,
                   provider>>

\* lines 215-221: the text is no JSON and holds a ```json fence; the function
\* calls itself on the text behind the fence.
ParseTextFallback ==
    /\ pc = "parse_text"
    /\ LoadsRaises(text)
    /\ HasJsonFence(text)
    /\ text' = JsonStr(text)
    /\ depth' = depth + 1
    /\ UNCHANGED <<pc, exception>>
    /\ UNCHANGED <<target_exists, target_doc, num_images, image_files,
                   insertion_plan, batch_plan, sorted_plan, item, doc, calls,
                   output_written, output_file, error, current_step,
                   completed, alignment, output_path, target_path>>
    /\ UNCHANGED <<node, source_exists, rels, rel_item, images, temp_dir, adoc,
                   structure, response, oracle_calls, config, provider_name,
                   provider>>

\* line 222: the text is no JSON and holds no fence, JSONDecodeError is
\* raised again.
ParseTextRaise ==
    /\ pc = "parse_text"
    /\ LoadsRaises(text)
    /\ ~HasJsonFence(text)
    /\ exception' = "JSONDecodeError"
    /\ pc' = "parse_raised"
    /\ UNCHANGED <<text, depth>>
    /\ UNCHANGED <<target_exists, target_doc, num_images, image_files,
                   insertion_plan, batch_plan, sorted_plan, item, doc, calls,
                   output_written, output_file, error, current_step,
                   completed, alignment, output_path, target_path>>
    /\ UNCHANGED <<node, source_exists, rels, rel_item, images, temp_dir, adoc,
                   structure, response, oracle_calls, config, provider_name,
                   provider>>

\* The texts the planner answers with are written with these pieces; "B" is
\* three backticks.
InputPieces == {"B", "tick", "json", "J", "O", " "}

RECURSIVE Expand(_)
Expand(t) ==
    IF t = <<>> THEN <<>>
    ELSE (IF Head(t) = "B" THEN TICKS ELSE <<Head(t)>>) \o Expand(Tail(t))

\* parse_llm_response called on its own with every text of up to MaxText
\* input pieces.
InitParse ==
    /\ target_exists = TRUE
    /\ target_doc = <<>>
    /\ num_images = 0
    /\ image_files = {}
    /\ insertion_plan = <<>>
    /\ batch_plan = <<>>
    /\ sorted_plan = <<>>
    /\ item = 0
    /\ doc = <<>>
    /\ calls = <<>>
    /\ output_written = FALSE
    /\ output_file = <<>>
    /\ error = NoError
    /\ current_step = "initialized"
    /\ completed = FALSE
    /\ alignment = IMAGE_ALIGNMENT
    /\ exception = "None"
    /\ pc = "parse_text"
    /\ target_path = TARGET_DOC_PATH
    /\ output_path = NoPath
    /\ node = "llm_decision"
    /\ source_exists = TRUE
    /\ rels = <<>>
    /\ rel_item = 0
    /\ images = <<>>
    /\ temp_dir = {}
    /\ adoc = <<>>
    /\ structure = NoStructure
    /\ response = NoResponse
    /\ oracle_calls = 0
    /\ text \in {Expand(t) : t \in SeqsUpTo(InputPieces, MaxText)}
    /\ depth = 0
    /\ config = [LLM_PROVIDER |-> <<"g", "l", "m">>, GLM_API_KEY |-> "",
                 GEMINI_API_KEY |-> ""]
    /\ provider_name = <<>>
    /\ provider = NoProvider

NextParse ==
    \/ ParseTextReturn
    \/ ParseTextNotArray
    \/ ParseTextFallback
    \/ ParseTextRaise

SpecParse == InitParse /\ [][NextParse]_vars

\* The call runs on: a step of parse_llm_response that can be taken is taken.
SpecParseFair == SpecParse /\ WF_vars(NextParse)

\* =================================================================== claims
\* Positions of d that hold the original paragraph e of the target document.
PositionsOf(d, e) == {p \in 1..Len(d) : d[p].elem = e}

\* The position of the original paragraph e in d (it is there exactly once).
PosOf(d, e) == CHOOSE p \in 1..Len(d) : d[p].elem = e

\* The positions of d from the original paragraph e up to, and without, the
\* original paragraph e + 1 (up to the end of d when e is the last of np).
Region(d, e, np) ==
    {p \in 1..Len(d) : /\ PosOf(d, e) <= p
                       /\ (e + 1 < np => p < PosOf(d, e + 1))}

\* How many pictures of image file x the paragraphs of d at positions P hold.
PicturesIn(d, P, x) ==
    Cardinality({pj \in P \X (1..(MaxPlan + 1)) :
                    /\ pj[2] <= Len(d[pj[1]].images)
                    /\ d[pj[1]].images[pj[2]] = x})

\* How many entries of plan put image file x after paragraph a.
EntriesFor(plan, a, x) ==
    Cardinality({i \in 1..Len(plan) : /\ plan[i].insert_after_para = a
                                      /\ plan[i].image_path = x})

\* The paragraph insert_image_at_paragraph is meant to create for a picture.
ImagePara(image_path, a) ==
    [EmptyPara EXCEPT !.images = <<image_path>>, !.alignment = AlignmentMap(a)]

\* What the finished call of insert_images_batch did, read from the state.
BatchOutcome ==
    [raised |-> exception, written |-> output_written, output |-> output_file]

\* The rearrangements of the sequence s.
Perms(s) ==
    {[i \in 1..Len(s) |-> s[f[i]]] : f \in Permutations(1..Len(s))}

\* The rearrangements of plan that keep entries with the same anchor in the
\* order they have in plan.
TieOrderPerms(plan) ==
    {[i \in 1..Len(plan) |-> plan[f[i]]] :
        f \in {g \in Permutations(1..Len(plan)) :
                \A i, j \in 1..Len(plan) :
                    (i < j /\ plan[g[i]].insert_after_para
                                = plan[g[j]].insert_after_para) => g[i] < g[j]}}

\* No entry of plan has a negative anchor (the plans the data model admits).
NoNegativeAnchor(plan) ==
    \A i \in 1..Len(plan) : plan[i].insert_after_para >= 0

\* C1: the document insert_images_batch writes has N + k paragraphs, N the
\* paragraphs of the target and k the decisions applied (stated for the
\* plans without a negative anchor).
C1_OneParagraphPerDecision ==
    (pc = "returned" /\ NoNegativeAnchor(batch_plan))
        => Len(output_file) = Len(target_doc) + Len(calls)

\* C2: a call of insert_image_at_paragraph with an anchor index inside the
\* document leaves the anchor paragraph as it was and puts, immediately after
\* it, a new paragraph that holds the picture and carries the alignment.
C2_PictureInNewParagraphAfterAnchor ==
    [][(/\ pc = "loop"
        /\ item' = item + 1
        /\ sorted_plan[item].insert_after_para >= 0
        /\ sorted_plan[item].insert_after_para < Len(doc))
       => \E p \in 1..(Len(doc') - 1) :
            /\ doc'[p] = doc[sorted_plan[item].insert_after_para + 1]
            /\ doc'[p + 1] = ImagePara(sorted_plan[item].image_path, alignment)
            /\ \A q \in 1..Len(doc') :
                  q # p + 1 => \E r \in 1..Len(doc) : doc'[q] = doc[r]]_vars

\* C3: in the written document, the picture of every applied decision whose
\* anchor a is an original paragraph lies at or after original paragraph a
\* (after its text) and before original paragraph a + 1, whatever the plan
\* (stated for the plans without a negative anchor).
C3_PictureBetweenAnchorAndNext ==
    (pc = "returned" /\ NoNegativeAnchor(batch_plan)) =>
        \A a \in 0..(Len(target_doc) - 1) :
            \A x \in AllPaths(MaxImages) :
                PicturesIn(output_file, Region(output_file, a, Len(target_doc)), x)
                    >= EntriesFor(batch_plan, a, x)

\* C4 as stated: every rearrangement of the plan gives the same result.
C4_AnyPermutationSameOutput ==
    pc \in {"returned", "raised"} =>
        \A q \in Perms(batch_plan) :
            InsertImagesBatch(target_doc, q, alignment, image_files) = BatchOutcome

\* C4 as amended: every rearrangement of the plan that keeps the entries with
\* equal insert_after_para in the same relative order gives the same result.
C4_TieOrderPermutationSameOutput ==
    pc \in {"returned", "raised"} =>
        \A q \in TieOrderPerms(batch_plan) :
            InsertImagesBatch(target_doc, q, alignment, image_files) = BatchOutcome

\* C4 witness: a batch whose two entries come in ascending anchor order, with
\* different images, was sorted, applied and written.
C4_Witness ==
    /\ pc = "returned"
    /\ Len(batch_plan) = 2
    /\ batch_plan[1].insert_after_para >= 0
    /\ batch_plan[1].insert_after_para < batch_plan[2].insert_after_para
    /\ batch_plan[2].insert_after_para < Len(target_doc)
    /\ batch_plan[1].image_path # batch_plan[2].image_path
    /\ Len(calls) = 2

\* C5: in the written document every original paragraph that no decision
\* names as its anchor has its original text and style, and the original
\* paragraphs are all there, once, in their original order.
C5_OriginalParagraphsKept ==
    pc = "returned" =>
        /\ \A e \in 0..(Len(target_doc) - 1) :
              Cardinality(PositionsOf(output_file, e)) = 1
        /\ \A e \in 0..(Len(target_doc) - 1) :
              (\A i \in 1..Len(batch_plan) : batch_plan[i].insert_after_para # e)
              => /\ output_file[PosOf(output_file, e)].text = target_doc[e + 1].text
                 /\ output_file[PosOf(output_file, e)].style = target_doc[e + 1].style
        /\ \A e1, e2 \in 0..(Len(target_doc) - 1) :
              e1 < e2 => PosOf(output_file, e1) < PosOf(output_file, e2)

\* C5 witness: a two-paragraph target, a decision anchored at its first
\* paragraph applied, its second paragraph no decision's anchor.
C5_Witness ==
    /\ pc = "returned"
    /\ Len(target_doc) >= 2
    /\ Len(calls) >= 1
    /\ \E i \in 1..Len(batch_plan) : batch_plan[i].insert_after_para = 0
    /\ \A i \in 1..Len(batch_plan) : batch_plan[i].insert_after_para # 1

\* C6: a decision applied with insert_after_para at or beyond the current
\* paragraph count appends exactly one paragraph, which holds the picture,
\* and changes no existing paragraph.
C6_AppendAtEnd ==
    [][(/\ pc = "loop"
        /\ item <= Len(sorted_plan)
        /\ sorted_plan[item].insert_after_para >= Len(doc)
        /\ sorted_plan[item].image_path \in image_files)
       => /\ item' = item + 1
          /\ doc' = Append(doc, ImagePara(sorted_plan[item].image_path,
                                          alignment))]_vars

\* C6 witness: a call of insert_image_at_paragraph whose anchor was at or
\* beyond the paragraph count of a non-empty document has returned.
C6_Witness ==
    /\ pc = "loop"
    /\ calls # <<>>
    /\ calls[Len(calls)].para_index >= calls[Len(calls)].len_paragraphs
    /\ calls[Len(calls)].len_paragraphs >= 1
    /\ calls[Len(calls)].para = Len(doc)

\* C7: no decision with a negative insert_after_para is ever applied, and
\* none aborts the batch.
C7_NegativeAnchorNeverApplied ==
    /\ \A i \in 1..Len(calls) : calls[i].para_index >= 0
    /\ (pc = "raised" /\ item >= 1) => sorted_plan[item].insert_after_para >= 0

\* state["insertion_plan"] without the entries whose image_index is at or
\* beyond the number of extracted images.
WithoutOutOfRange(plan, n) ==
    SelectSeq(plan, LAMBDA d : d.image_index < n)

\* What the finished insertion step did, read from the state.
StepOutcome ==
    [raised |-> error[2], written |-> output_written, output |-> output_file]

ValidBatchPlan(plan, n, files) ==
    LET valid == SelectSeq(plan, LAMBDA d : /\ d.image_index >= 0
                                            /\ d.image_index < n
                                            /\ TempPath(d.image_index) \in files)
    IN [i \in 1..Len(valid) |->
            [image_path |-> TempPath(valid[i].image_index),
             insert_after_para |-> valid[i].insert_after_para]]

\* C9: a decision with a negative image_index is skipped and does not abort
\* the step; every picture inserted is the extracted image whose index is the
\* decision's image_index.
C9_NegativeImageIndexSkipped ==
    (pc # "run" /\ ValidateInput)
        => /\ ~(pc = "raised" /\ item = 0)
           /\ ~(pc = "done" /\ item = 0)
           /\ batch_plan = ValidBatchPlan(insertion_plan, num_images, image_files)

\* C10: a decision whose image file is missing never enters the batch; when
\* the plan is otherwise valid (no negative image_index or anchor) the step
\* completes and applies exactly the decisions whose file exists.
C10_MissingFileSkipped ==
    /\ \A i \in 1..Len(batch_plan) : batch_plan[i].image_path \in image_files
    /\ (/\ pc = "done"
        /\ ValidateInput
        /\ \A i \in 1..Len(insertion_plan) :
              /\ insertion_plan[i].image_index >= 0
              /\ insertion_plan[i].insert_after_para >= 0)
       => /\ completed
          /\ error = NoError
          /\ output_written
          /\ [i \in 1..Len(calls) |->
                [image_path |-> calls[i].image_path,
                 insert_after_para |-> calls[i].para_index]]
             = SortedPlan(ValidBatchPlan(insertion_plan, num_images, image_files))

\* C10 witness: a completed step whose plan named an extracted image whose
\* file is gone and another whose file exists, the latter applied.
C10_Witness ==
    /\ pc = "done"
    /\ completed
    /\ Len(calls) = 1
    /\ \E i \in 1..Len(insertion_plan) :
          /\ insertion_plan[i].image_index \in 0..(num_images - 1)
          /\ TempPath(insertion_plan[i].image_index) \notin image_files

\* C13: insert_images_batch writes output_path only after every decision of
\* the batch was applied to the in-memory document, and writes nothing when
\* applying a decision raises.
C13_SaveOnlyAfterAllApplied ==
    /\ output_written => /\ pc \in {"returned", "done"}
                         /\ Len(calls) = Len(sorted_plan)
                         /\ output_file = doc
    /\ pc = "raised" => ~output_written

\* C13 witness: a batch in which one decision was applied and the next one
\* raised, with nothing written.
C13_Witness ==
    /\ pc = "raised"
    /\ Len(calls) >= 1
    /\ Len(doc) > Len(target_doc)
    /\ ~output_written

\* C14: the output path the insertion step computes differs from target_path
\* for every target_path, and the file at target_path holds after the step
\* what it held before it.
C14_TargetNeverWritten ==
    /\ target_doc = TargetDoc(Len(target_doc))
    /\ output_path # NoPath => output_path # target_path

C14_Witness ==
    /\ completed
    /\ output_written
    /\ target_path.dir = OUTPUT_DOC_DIR
    /\ Len(output_file) > Len(target_doc)

\* The records of s whose is_heading is true, in order.
RECURSIVE HeadingsOf(_)
HeadingsOf(s) ==
    IF s = <<>> THEN <<>>
    ELSE IF Head(s).is_heading
         THEN <<Head(s)>> \o HeadingsOf(Tail(s))
         ELSE HeadingsOf(Tail(s))

\* C17: the structure analyze_document_structure returns has one record per
\* paragraph of the document, total_paragraphs of them, and the i-th record
\* (from zero) has index i.
C17_ParagraphsIndexedInOrder ==
    pc = "analyze_returned" =>
        /\ Len(structure.paragraphs) = structure.total_paragraphs
        /\ structure.total_paragraphs = Len(adoc)
        /\ \A i \in 0..(Len(adoc) - 1) :
              /\ structure.paragraphs[i + 1].index = i
              /\ structure.paragraphs[i + 1].text = Strip(adoc[i + 1].text)

C17_Witness ==
    /\ pc = "analyze_returned"
    /\ Len(adoc) = MaxParas
    /\ structure.paragraphs[MaxParas].index = MaxParas - 1

\* C18: empty_paragraphs holds exactly the indices of the records whose
\* (trimmed) text is empty, each once, in increasing order.
C18_EmptyParagraphsExact ==
    pc = "analyze_returned" =>
        LET e == structure.empty_paragraphs
            ps == structure.paragraphs
        IN /\ \A k \in 1..Len(e) :
                 /\ e[k] \in 0..(Len(ps) - 1)
                 /\ ps[e[k] + 1].text = <<>>
           /\ \A i \in 0..(Len(ps) - 1) :
                 ps[i + 1].text = <<>> => \E k \in 1..Len(e) : e[k] = i
           /\ \A k \in 1..(Len(e) - 1) : e[k] < e[k + 1]

C18_Witness ==
    /\ pc = "analyze_returned"
    /\ Len(adoc) = MaxParas
    /\ adoc[1].text = <<" ", " ">>
    /\ adoc[MaxParas].text = <<"a">>
    /\ structure.empty_paragraphs = <<0>>

\* C19: headings is the subsequence of paragraphs whose is_heading is true,
\* in document order; a record has a heading_level only if is_heading is
\* true; a heading style whose last token is not an integer gives a record
\* with no level.
C19_HeadingsSubsequence ==
    pc = "analyze_returned" =>
        /\ structure.headings = HeadingsOf(structure.paragraphs)
        /\ \A i \in 1..Len(structure.paragraphs) :
              LET r == structure.paragraphs[i]
              IN /\ r.heading_level # <<>> => r.is_heading
                 /\ (r.is_heading /\ IntRaises(LastToken(r.style)))
                       => r.heading_level = <<>>

C19_Witness ==
    /\ pc = "analyze_returned"
    /\ Len(adoc) = MaxParas
    /\ adoc[1].style = <<"Heading", " ", "1", " ", "Char">>
    /\ adoc[MaxParas].style = <<"Heading", " ", "1", "2">>
    /\ Len(structure.headings) = 2
    /\ structure.headings[1].heading_level = <<>>
    /\ structure.headings[2].heading_level = <<12>>

\* The places in the relationship table of its image-typed entries, in order.
ImageTyped(rs) ==
    LET P == {k \in 1..Len(rs) : rs[k].reltype = "image"}
        RECURSIVE Asc(_, _)
        Asc(k, acc) == IF k > Len(rs) THEN acc
                       ELSE Asc(k + 1, IF k \in P THEN Append(acc, k) ELSE acc)
    IN Asc(1, <<>>)

\* C20: for a relationship table with N image-typed entries among other
\* entries, extract_images_from_docx returns N records, one per image-typed
\* entry in the table's order, with indices 0..N-1, and every record's file
\* exists after the call.
C20_OneRecordPerImageResource ==
    pc = "extract_returned" =>
        /\ Len(images) = Len(ImageTyped(rels))
        /\ \A k \in 1..Len(images) :
              /\ images[k].index = k - 1
              /\ images[k].rel_id = ImageTyped(rels)[k]
              /\ images[k].temp_path \in temp_dir

\* The items of a planner's array that have both keys and name an extracted
\* image.
RECURSIVE ValidItems(_, _)
ValidItems(items, n) ==
    IF items = <<>> THEN <<>>
    ELSE IF Head(items).has_keys /\ Head(items).image_index < n
         THEN <<Head(items)>> \o ValidItems(Tail(items), n)
         ELSE ValidItems(Tail(items), n)

\* C11: when the planner's array holds a malformed entry (a key missing), the
\* remaining valid entries are still applied: at the end of the workflow the
\* insertion step has applied one insertion per valid entry of the array.
C11_BadDecisionAffectsOnlyItself ==
    (node = "END" /\ response.kind = "list") =>
        Len(calls) = Len(ValidItems(response.items, num_images))

\* The plan a well-formed array stands for.
PlanOf(items) == [k \in 1..Len(items) |-> Decision(items[k])]

WellFormed(r) ==
    r.kind = "list" /\ \A k \in 1..Len(r.items) : r.items[k].has_keys

\* A plan of any size, the empty one included, is stored as given and the
\* workflow ends without error, with one insertion per entry in range.
PlanSizeNeverFails(sizes) ==
    (WellFormed(response) /\ Len(response.items) \in sizes) =>
        /\ (node \in {"insert_images", "verify_result", "END"}
               => insertion_plan = PlanOf(response.items))
        /\ (node = "END" =>
               /\ error = NoError
               /\ completed
               /\ Len(calls) = Len(ValidItems(response.items, num_images)))

\* C12 as stated: a plan of any size k >= 0, equal to the number of images
\* or not, never makes the workflow fail: it is stored as given and applied.
C12_AnyPlanSizeNeverFails == PlanSizeNeverFails(0..MaxPlan)

\* C12 amended: a plan of any size k >= 1, equal to the number of images or
\* not, never makes the workflow fail: it is stored as given and its entries
\* are applied by the insertion step.
C12_NonEmptyPlanSizeNeverFails == PlanSizeNeverFails(1..MaxPlan)

C12_Witness ==
    /\ node = "END"
    /\ WellFormed(response)
    /\ Len(insertion_plan) = MaxPlan
    /\ num_images = 1
    /\ completed
    /\ Len(calls) = MaxPlan

\* C15: when the source or the target document is missing, the error the
\* workflow ends with is the one set by the step that first hit the missing
\* document: the extraction step for the source, the analysis step for the
\* target.
C15_FirstErrorSurfacedUnchanged ==
    node = "END" =>
        /\ ~source_exists =>
              error = <<"DocxExtractor failed",
                        "Invalid input state for DocxExtractor">>
        /\ (source_exists /\ ~target_exists /\ ~TargetPartRaises(rels[Len(rels)])) =>
              error = <<"DocxAnalyzer failed",
                        "Invalid input state for DocxAnalyzer">>

\* The planner failed: its call raised, or its text is not a JSON array of
\* items that have both keys.
OracleFailed(r) == r.kind \in {"raise", "garbage", "object"} \/ (r.kind = "list" /\ ~WellFormed(r))

\* C16: when the planner's call raises or its text cannot be parsed into a
\* plan, the planning step ends with error set by LLMAdvisor and no plan
\* stored, the planner is not called again, and the insertion step applies
\* nothing and writes nothing.
C16_OracleFailureStoresNoPlan ==
    OracleFailed(response) =>
        /\ insertion_plan = <<>>
        /\ oracle_calls = 1
        /\ calls = <<>>
        /\ ~output_written
        /\ ~completed
        /\ (node = "llm_decision" /\ pc = "done") =>
              /\ error[1] = "LLMAdvisor failed"
              /\ current_step = "error"
        /\ node \in {"insert_images", "verify_result", "END"} => error # NoError

C16_Witness ==
    /\ node = "END"
    /\ response.kind = "garbage"
    /\ response.fenced
    /\ insertion_plan = <<>>
    /\ error # NoError
    /\ ~output_written

\* The name create_provider selects, as given.
Selected == SelectedName(provider_name, config)

\* What create_llm_provider does for the names glm and gemini and for every
\* other name, when the names are read through the conversion conv.
FactoryContract(conv(_)) ==
    LET glm == conv(Selected) = <<"g", "l", "m">>
        gemini == conv(Selected) = <<"g", "e", "m", "i", "n", "i">>
        made == (glm /\ config.GLM_API_KEY # "")
                   \/ (gemini /\ config.GEMINI_API_KEY # "")
    IN /\ (pc = "provider_returned") =>
             /\ made
             /\ glm => provider.class = "GLMProvider"
             /\ gemini => provider.class = "GeminiProvider"
             /\ provider.provider_name = conv(Selected)
       /\ (pc = "provider_raised") =>
             /\ ~made
             /\ exception = "ValueError"
             /\ provider = NoProvider

AsGiven(name) == name

\* C21 as stated: a GLMProvider for the selected name 'glm', a GeminiProvider
\* for 'gemini' (key configured), provider_name equal to the selected name,
\* and ValueError and no provider for any other name or a missing key.
C21_FactoryByExactName == FactoryContract(AsGiven)

\* C21 amended: the same with the selected name compared after lower-casing,
\* and provider_name equal to the lower-cased selected name.
C21_FactoryByLowercasedName == FactoryContract(Lower)

C21_Witness ==
    /\ pc = "provider_returned"
    /\ provider_name = <<>>
    /\ config.LLM_PROVIDER = <<"G", "e", "m", "i", "n", "i">>
    /\ provider.class = "GeminiProvider"

\* C22: insert_images_batch applies the decisions in non-increasing order of
\* insert_after_para, whatever the order of the plan: no decision is applied
\* after a decision with a strictly lower anchor.
C22_AppliedInDescendingOrder ==
    \A i, j \in 1..Len(calls) :
        i < j => calls[i].para_index >= calls[j].para_index

C22_Witness ==
    /\ pc = "returned"
    /\ Len(batch_plan) = MaxPlan
    /\ batch_plan[1].insert_after_para < batch_plan[MaxPlan].insert_after_para
    /\ Len(calls) = MaxPlan
    /\ calls[1].para_index > calls[MaxPlan].para_index

\* C27: in the document insert_images_batch writes, every paragraph holds at
\* most one inserted picture, for every plan (stated for the plans without a
\* negative anchor).
C27_OnePicturePerParagraph ==
    (pc = "returned" /\ NoNegativeAnchor(batch_plan)) =>
        \A p \in 1..Len(output_file) : Len(output_file[p].images) <= 1

\* C23: when a decision with anchor b is applied after a decision with a
\* higher anchor, doc.paragraphs[b] is still the original paragraph b (stated
\* for anchors that are paragraphs of the target).
C23_LowerAnchorsStayValid ==
    [][(/\ pc = "loop"
        /\ item' = item + 1
        /\ sorted_plan[item].insert_after_para >= 0
        /\ sorted_plan[item].insert_after_para < Len(target_doc)
        /\ \E k \in 1..Len(calls) :
              calls[k].para_index > sorted_plan[item].insert_after_para)
       => doc[sorted_plan[item].insert_after_para + 1]
            = target_doc[sorted_plan[item].insert_after_para + 1]]_vars

\* The nodes of the workflow in the order of the pipeline, and its end.
NodeOrder ==
    <<"extract_images", "analyze_target", "llm_decision", "insert_images",
      "verify_result", "END">>

\* C24: every run starts at extract_images, moves from a node only to the
\* next node of the pipeline, enters each node once, and reaches the end,
\* whether its steps fail or not.
C24_FiveNodesInOrderThenEnd ==
    /\ node = NodeOrder[1]
    /\ [][/\ node' # node =>
                \E k \in 1..5 : node = NodeOrder[k] /\ node' = NodeOrder[k + 1]
          /\ (pc' = "run" /\ pc # "run") => node' # node]_vars
    /\ <>[](node = "END")

C24_Witness ==
    /\ node = "END"
    /\ ~source_exists
    /\ ~target_exists
    /\ error # NoError

\* C25: in every state of a workflow run, completed is set only while
\* no error is recorded.
C25_CompletedImpliesNoError == completed => error = NoError

C25_Witness ==
    /\ node = "END"
    /\ completed
    /\ output_written
    /\ oracle_calls > 0

\* The extraction step or the analysis step has just failed: the step of
\* one of the first two nodes is over and an error is recorded.
EarlyStepFailed ==
    /\ node \in {"extract_images", "analyze_target"}
    /\ pc = "done"
    /\ error # NoError

\* C26: once the extraction step or the analysis step has failed, the
\* oracle is never invoked and no output document is written in that run.
C26_EarlyFailureNoOracleNoOutput ==
    [](EarlyStepFailed => [](oracle_calls = 0 /\ ~output_written))

C26_Witness ==
    /\ node = "END"
    /\ source_exists
    /\ num_images > 0
    /\ ~target_exists
    /\ error # NoError
    /\ oracle_calls = 0
    /\ ~output_written

\* C28: in every state observed between two steps of the workflow, an error
\* is recorded exactly when current_step is "error".
C28_ErrorIffStepIsError ==
    pc \in {"run", "done"} => (error # NoError <=> current_step = "error")

\* C29: in a completed run the number of images reported as inserted, the
\* length of insertion_plan, is the number of decisions that were applied
\* to the output document.
C29_ReportedCountIsAppliedCount ==
    (completed /\ output_written) => Len(insertion_plan) = Len(calls)

\* The text t holds a "```json" fence.
HoldsFence(t) ==
    \E i \in 1..(Len(t) - 3) :
        SubSeq(t, i, i + 3) = <<"tick", "tick", "tick", "json">>

\* C30: parse_llm_response ends on every text: it calls itself at most
\* once, the text of that call holds no "```json" fence, and the call then
\* returns a plan or raises.
C30_ParseEndsAfterOneFallback ==
    /\ [](depth <= 1)
    /\ [](depth >= 1 => ~HoldsFence(text))
    /\ <>(pc \in {"parse_returned", "parse_raised"})

C30_Witness ==
    /\ depth = 1
    /\ pc = "parse_returned"
    /\ text = <<"J">>

====
